---- MODULE Spec2Model ----
(***************************************************************************)
(* kuyruk Master (src/kuyruk/master.py): the supervisor of the queue       *)
(* workers.  Three flows of control share the Master object:               *)
(*   "main" - Master.run: _start_workers, then the monitor loop            *)
(*            _wait_for_workers;                                           *)
(*   "sig"  - a Python signal handler, which runs on the main thread       *)
(*            between two of its steps (the main flow is suspended while   *)
(*            the handler frame is active);                                *)
(*   "mgr"  - the daemon thread _send_status, which dispatches the         *)
(*            manager's commands on the Master.                            *)
(* A string is a sequence of one-character strings.                        *)
(***************************************************************************)
EXTENDS Integers, Sequences, FiniteSets, Bags, TLC

\* ------------------------------------------------------------------ bounds
MaxEvents == 2     \* signals, manager commands and worker crashes in one run
MaxLen == 5        \* characters of a queue spec given to the parser

VARIABLES
    config,            \* self.config: WORKERS (hostname -> spec), path (reloadable)
    override_queues,   \* self.override_queues (<<>> is None / the empty string)
    lists,             \* the list objects self.workers has been bound to
    workers,           \* self.workers: the index in lists of the current list
    shutdown_pending,  \* self.shutdown_pending
    procs,             \* the Worker objects ever started, by handle
    pc,                \* the position of each flow of control
    mon,               \* the locals of _wait_for_workers / _spawn_new_worker / _kill_pg
    fr,                \* per flow: the locals of _start_workers, stop_workers, reload
    used               \* how many of the MaxEvents external events have happened

vars == <<config, override_queues, lists, workers,
          shutdown_pending, procs, pc, mon, fr, used>>

Ctx == {"main", "sig", "mgr"}

\* ------------------------------------------------------- queue spec parser
hostname == <<"h">>

RECURSIVE split(_, _)
split(s, sep) ==
    IF \E i \in 1..Len(s) : s[i] = sep
    THEN LET i == CHOOSE k \in 1..Len(s) :
                      s[k] = sep /\ \A j \in 1..(k - 1) : s[j] # sep
         IN  <<SubSeq(s, 1, i - 1)>> \o split(SubSeq(s, i + 1, Len(s)), sep)
    ELSE <<s>>

split1(s, sep) ==
    IF \E i \in 1..Len(s) : s[i] = sep
    THEN LET i == CHOOSE k \in 1..Len(s) :
                      s[k] = sep /\ \A j \in 1..(k - 1) : s[j] # sep
         IN  <<SubSeq(s, 1, i - 1), SubSeq(s, i + 1, Len(s))>>
    ELSE <<s>>

RECURSIVE lstrip(_)
lstrip(s) == IF s # <<>> /\ s[1] = " " THEN lstrip(Tail(s)) ELSE s

RECURSIVE rstrip(_)
rstrip(s) ==
    IF s # <<>> /\ s[Len(s)] = " " THEN rstrip(SubSeq(s, 1, Len(s) - 1)) ELSE s

strip(s) == rstrip(lstrip(s))

Digits == <<"0", "1", "2", "3", "4", "5", "6", "7", "8", "9">>

IsDigit(c) == \E i \in 1..Len(Digits) : Digits[i] = c

DigitVal(c) == (CHOOSE i \in 1..Len(Digits) : Digits[i] = c) - 1

int_digits(t) ==
    LET u == strip(t)
    IN  IF u # <<>> /\ u[1] \in {"+", "-"} THEN Tail(u) ELSE u

\* int(t) raises ValueError unless int_ok(t)
int_ok(t) ==
    /\ int_digits(t) # <<>>
    /\ \A i \in 1..Len(int_digits(t)) : IsDigit(int_digits(t)[i])

RECURSIVE digits_val(_)
digits_val(d) ==
    IF d = <<>> THEN 0
    ELSE 10 * digits_val(SubSeq(d, 1, Len(d) - 1)) + DigitVal(d[Len(d)])

int(t) ==
    LET u == strip(t)
    IN  IF u[1] = "-" THEN 0 - digits_val(int_digits(t)) ELSE digits_val(int_digits(t))

\* n * [x]: the empty list when n <= 0
repeat(x, n) == IF n <= 0 THEN <<>> ELSE [i \in 1..n |-> x]

\* A variant of parse_count that drops the multiplier: one copy of the name.
parse_count_once(q) ==
    LET parts == split1(q, "*")
    IN  IF Len(parts) > 1
        THEN IF int_ok(parts[1])
             THEN [err |-> FALSE, val |-> <<parts[2]>>]
             ELSE [err |-> TRUE, val |-> <<>>]
        ELSE [err |-> FALSE, val |-> <<parts[1]>>]

\* A result is [err, val]: err when the call raises (ValueError).
parse_count(q) ==
    LET parts == split1(q, "*")
    IN  IF Len(parts) > 1
        THEN IF int_ok(parts[1])
             THEN [err |-> FALSE, val |-> repeat(parts[2], int(parts[1]))]
             ELSE [err |-> TRUE, val |-> <<>>]
        ELSE [err |-> FALSE, val |-> <<parts[1]>>]

parse_local(q) ==
    IF q # <<>> /\ q[1] = "@" THEN Tail(q) \o <<"_">> \o hostname ELSE q

RECURSIVE chain(_)
chain(ls) == IF ls = <<>> THEN <<>> ELSE Head(ls) \o chain(Tail(ls))

parse_queues_str(s) ==
    LET toks   == split(s, ",")
        queues == [i \in 1..Len(toks) |-> parse_count(strip(toks[i]))]
        flat   == chain([i \in 1..Len(toks) |-> queues[i].val])
    IN  IF \E i \in 1..Len(toks) : queues[i].err
        THEN [err |-> TRUE, val |-> <<>>]
        ELSE [err |-> FALSE, val |-> [i \in 1..Len(flat) |-> parse_local(flat[i])]]

\* ------------------------------------------------------- the configuration
kuyruk == <<"k", "u", "y", "r", "u", "k">>

\* config.WORKERS at start: the spec of this host
InitDicts == { hostname :> <<"2", "*", "a">> }

\* config.WORKERS after config.reload(): the same spec, or another one
ReloadDicts == { hostname :> <<"2", "*", "a">>, hostname :> <<"@", "b">> }

\* _get_queues under the configuration cfg
_get_queues(cfg) ==
    IF override_queues # <<>> THEN override_queues
    ELSE IF hostname \in DOMAIN cfg.WORKERS THEN cfg.WORKERS[hostname]
    ELSE kuyruk

\* --------------------------------------------------------------- helpers
In(l, x) == \E k \in 1..Len(l) : l[k] = x

\* list.remove(x): drops the first occurrence (the caller checks In(l, x);
\* Python raises ValueError otherwise)
list_remove(l, x) ==
    LET i == CHOOSE k \in 1..Len(l) : l[k] = x /\ \A j \in 1..(k - 1) : l[j] # x
    IN  SubSeq(l, 1, i - 1) \o SubSeq(l, i + 1, Len(l))

\* self.workers, the list the attribute is bound to now
self_workers == lists[workers]

NoFrame ==
    [op |-> "none", tty |-> FALSE, queues |-> <<>>, list |-> 0, i |-> 0,
     kill |-> FALSE, old_workers |-> 0, targets |-> <<>>, sent |-> <<>>]

NoMon ==
    [any_alive |-> FALSE, snapshot |-> <<>>, idx |-> 0, worker |-> 0,
     dead_seen |-> {}, errno |-> 0]

\* The Master process is running its run() method.
MasterAlive == pc["main"] \notin {"done", "crashed"}

\* The flow c may take a step: a handler frame suspends the main flow, and the
\* daemon thread lives as long as the process.
Runnable(c) ==
    CASE c = "main" -> MasterAlive /\ pc["sig"] = "idle"
      [] c = "sig"  -> MasterAlive /\ pc["sig"] # "idle"
      [] c = "mgr"  -> MasterAlive /\ pc["mgr"] \notin {"unstarted", "dead"}

\* An exception leaves the flow c: in a handler it unwinds into the main flow,
\* in the daemon thread it ends the thread.
raised(c) ==
    IF c = "mgr" THEN [pc EXCEPT !["mgr"] = "dead"]
    ELSE [pc EXCEPT !["main"] = "crashed", !["sig"] = "idle"]

\* The operation a handler or a command started returns to its caller: the
\* handler frame ends, the daemon thread sleeps and loops (line 178).
returned(c) ==
    IF c = "mgr" THEN [pc EXCEPT !["mgr"] = "loop"]
    ELSE [pc EXCEPT !["sig"] = "idle"]

\* The list objects still referenced once the flow c has left its operation:
\* the one self.workers is bound to and those in the frames of the other
\* flows; the others are garbage and are emptied.
collected(c) ==
    [k \in DOMAIN lists |->
        IF k = workers
           \/ \E d \in {"sig", "mgr"} \ {c} :
                  pc[d] \in {"start_workers", "stop"} /\ fr[d].list = k
        THEN lists[k] ELSE <<>>]

\* ------------------------------------------------------- worker processes
\* Process.start() first polls (reaps) every finished child of this process.
cleanup(ps) ==
    [h \in DOMAIN ps |->
        IF ps[h].st = "zombie" THEN [ps[h] EXCEPT !.st = "reaped"] ELSE ps[h]]

\* Worker(queue, config) and start(): a new live process; signalled records
\* what sent it SIGTERM or SIGKILL ("none": nothing did).
started(ps, queue) ==
    Append(cleanup(ps),
           [queue_name |-> queue, st |-> "alive", signalled |-> "none"])

\* worker.is_alive(): polls the child, which reaps it when it has exited.
is_alive(h) == procs[h].st = "alive"

polled(ps, h) ==
    IF ps[h].st = "zombie" THEN [ps EXCEPT ![h].st = "reaped"] ELSE ps

\* os.kill(pid, sig) fails with ESRCH when the child has been reaped.
kill_fails(h) == procs[h].st = "reaped"

\* What the operation op is to the worker it signals.
cause(op) ==
    IF op \in {"SIGTERM", "SIGQUIT", "SIGINT"} THEN "shutdown"
    ELSE IF op \in {"SIGHUP", "reload"} THEN "reload"
    ELSE "stop_workers"

\* os.kill(pid, SIGKILL if kill else SIGTERM), sent by op, on a process that
\* exists: a zombie takes no signal; a signal of a shutdown stays on record
signalled(ps, h, op) ==
    IF ps[h].st # "alive" \/ ps[h].signalled = "shutdown" THEN ps
    ELSE [ps EXCEPT ![h].signalled = cause(op)]

\* A worker that was sent SIGTERM or SIGKILL exits.
worker_exit(h) ==
    /\ MasterAlive
    /\ procs[h].st = "alive"
    /\ procs[h].signalled # "none"
    /\ procs' = [procs EXCEPT ![h].st = "zombie"]
    /\ UNCHANGED <<config, override_queues, lists, workers,
                   shutdown_pending, pc, mon, fr, used>>

\* A worker dies on its own (a crash, kill -9 from outside); the death of a
\* worker that was signalled is worker_exit.
worker_crash(h) ==
    /\ MasterAlive
    /\ procs[h].st = "alive"
    /\ procs[h].signalled = "none"
    /\ used < MaxEvents
    /\ procs' = [procs EXCEPT ![h].st = "zombie"]
    /\ used' = used + 1
    /\ UNCHANGED <<config, override_queues, lists, workers,
                   shutdown_pending, pc, mon, fr>>

\* ------------------------------------------------------------------- Init
OverrideQueues == { <<>> }

Init ==
    /\ config \in [WORKERS : InitDicts, path : BOOLEAN]
    /\ override_queues \in OverrideQueues
    /\ lists = << <<>> >>
    /\ workers = 1
    /\ shutdown_pending = FALSE
    /\ procs = <<>>
    /\ pc = [c \in Ctx |->
                IF c = "main" THEN "run" ELSE IF c = "sig" THEN "idle" ELSE "unstarted"]
    /\ mon = NoMon
    /\ fr = [c \in Ctx |-> NoFrame]
    /\ used = 0

\* ------------------------------------------------------------- Master.run
\* lines 32-43 and 49-51: register the handlers, start the daemon thread,
\* call _start_workers, which resolves and parses the queues; with no queue
\* _wait_for_workers begins at once (lines 83-84)
run ==
    /\ pc["main"] = "run"
    /\ LET queues == parse_queues_str(_get_queues(config))
       IN  IF queues.err
           THEN /\ pc' = [pc EXCEPT !["main"] = "crashed", !["mgr"] = "loop"]
                /\ UNCHANGED <<fr, mon>>
           ELSE /\ fr' = [fr EXCEPT !["main"].queues = queues.val]
                /\ IF queues.val = <<>>
                   THEN /\ pc' = [pc EXCEPT !["main"] = "while", !["mgr"] = "loop"]
                        /\ mon' = [mon EXCEPT !.any_alive = TRUE]
                   ELSE /\ pc' = [pc EXCEPT !["main"] = "start_workers",
                                            !["mgr"] = "loop"]
                        /\ mon' = mon
    /\ UNCHANGED <<config, override_queues, lists, workers,
                   shutdown_pending, procs, used>>

\* lines 52-55: the next queue's worker is created, started and appended to
\* self.workers; after the last one _start_workers returns: run goes on to
\* _wait_for_workers (lines 83-84), reload to stop_workers(old_workers)
_start_workers(c) ==
    /\ Runnable(c) /\ pc[c] = "start_workers"
    /\ procs' = started(procs, Head(fr[c].queues))
    /\ lists' = [lists EXCEPT ![workers] = Append(@, Len(procs) + 1)]
    /\ fr' = [fr EXCEPT ![c].queues = Tail(@)]
    /\ IF Tail(fr[c].queues) # <<>>
       THEN UNCHANGED <<pc, mon>>
       ELSE IF c = "main"
       THEN /\ pc' = [pc EXCEPT ![c] = "while"]
            /\ mon' = [mon EXCEPT !.any_alive = TRUE]
       ELSE /\ pc' = [pc EXCEPT ![c] = "stop"]
            /\ mon' = mon
    /\ UNCHANGED <<config, override_queues, workers, shutdown_pending, used>>

\* ----------------------------------------------------------- stop_workers
\* lines 72-73: the frame of stop_workers(workers, kill) on the list object l
stop_frame(f, l, kill) ==
    [f EXCEPT !.list = l, !.kill = kill, !.i = 1, !.targets = lists[l]]

\* lines 75-76: the next worker of the list is signalled; the list is read
\* through its reference at every step, as Python's list iterator does
stop_workers(c) ==
    /\ Runnable(c) /\ pc[c] = "stop"
    /\ LET ws == lists[fr[c].list]
           i  == fr[c].i
       IN  IF i > Len(ws)
           THEN /\ pc' = returned(c)
                /\ fr' = [fr EXCEPT ![c] = NoFrame]
                /\ lists' = collected(c)
                /\ procs' = procs
           ELSE IF kill_fails(ws[i])
           THEN /\ pc' = raised(c)
                /\ fr' = [fr EXCEPT ![c] = NoFrame]
                /\ lists' = collected(c)
                /\ procs' = procs
           ELSE /\ procs' = signalled(procs, ws[i], fr[c].op)
                /\ fr' = [fr EXCEPT ![c].i = i + 1, ![c].sent = Append(@, ws[i])]
                /\ UNCHANGED <<pc, lists>>
    /\ UNCHANGED <<config, override_queues, workers, shutdown_pending, mon, used>>

\* ------------------------------------------------------ _wait_for_workers
\* lines 85-87: a tick begins with a copy of self.workers, or the loop ends
wait_while ==
    /\ Runnable("main") /\ pc["main"] = "while"
    /\ IF mon.any_alive
       THEN /\ mon' = [mon EXCEPT !.any_alive = FALSE, !.snapshot = self_workers,
                                  !.idx = 1, !.worker = 0, !.dead_seen = {}]
            /\ pc' = [pc EXCEPT !["main"] = "for"]
       ELSE /\ mon' = mon
            /\ pc' = [pc EXCEPT !["main"] = "done"]
    /\ UNCHANGED <<config, override_queues, lists, workers,
                   shutdown_pending, procs, fr, used>>

\* lines 87-90, 94: the next worker of the copy and its is_alive(); a dead
\* one is replaced unless shutdown_pending
wait_is_alive ==
    /\ Runnable("main") /\ pc["main"] = "for"
    /\ IF mon.idx > Len(mon.snapshot)
       THEN /\ pc' = [pc EXCEPT !["main"] = "tick_end"]
            /\ mon' = mon
            /\ procs' = procs
       ELSE LET w == mon.snapshot[mon.idx]
            IN  /\ procs' = polled(procs, w)
                /\ IF is_alive(w)
                   THEN /\ mon' = [mon EXCEPT !.any_alive = TRUE, !.idx = @ + 1]
                        /\ pc' = pc
                   ELSE /\ mon' = [mon EXCEPT !.worker = w,
                                              !.dead_seen = @ \cup {w}]
                        /\ pc' = [pc EXCEPT !["main"] =
                                     IF ~shutdown_pending THEN "spawn" ELSE "remove"]
    /\ UNCHANGED <<config, override_queues, lists, workers,
                   shutdown_pending, fr, used>>

\* line 117: the errno of "no such process"
ESRCH == 3

\* what os.killpg can end with: 0 stands for success, 1 is EPERM
KillpgErrno == {0, 1, ESRCH}

\* A variant of _kill_pg_raises that lets every failure of killpg through.
_kill_pg_raises_always(errno) == errno # 0

\* lines 111-118: _kill_pg raises unless killpg succeeds or fails with ESRCH
_kill_pg_raises(errno) == errno # 0 /\ errno # ESRCH

\* A variant of _spawn_new_worker that binds the new worker to the default
\* queue instead of the dead worker's queue_name.
_spawn_new_worker_default_queue ==
    /\ Runnable("main") /\ pc["main"] = "spawn"
    /\ \E errno \in KillpgErrno :
          /\ mon' = [mon EXCEPT !.errno = errno]
          /\ IF _kill_pg_raises(errno)
             THEN /\ pc' = raised("main")
                  /\ UNCHANGED <<procs, lists>>
             ELSE /\ procs' = started(procs, kuyruk)
                  /\ lists' = [lists EXCEPT ![workers] = Append(@, Len(procs) + 1)]
                  /\ pc' = [pc EXCEPT !["main"] = "spawn_remove"]
    /\ UNCHANGED <<config, override_queues, workers, shutdown_pending, fr, used>>

\* lines 91-92, 105-107: kill the dead worker's process group, then create,
\* start and append a worker on the dead worker's queue
_spawn_new_worker ==
    /\ Runnable("main") /\ pc["main"] = "spawn"
    /\ \E errno \in KillpgErrno :
          /\ mon' = [mon EXCEPT !.errno = errno]
          /\ IF _kill_pg_raises(errno)
             THEN /\ pc' = raised("main")
                  /\ UNCHANGED <<procs, lists>>
             ELSE /\ procs' = started(procs, procs[mon.worker].queue_name)
                  /\ lists' = [lists EXCEPT ![workers] = Append(@, Len(procs) + 1)]
                  /\ pc' = [pc EXCEPT !["main"] = "spawn_remove"]
    /\ UNCHANGED <<config, override_queues, workers, shutdown_pending, fr, used>>

\* lines 108, 93: self.workers.remove(worker) (ValueError when it is not in
\* the list), then any_alive = True
_spawn_new_worker_remove ==
    /\ Runnable("main") /\ pc["main"] = "spawn_remove"
    /\ IF In(self_workers, mon.worker)
       THEN /\ lists' = [lists EXCEPT ![workers] = list_remove(@, mon.worker)]
            /\ mon' = [mon EXCEPT !.any_alive = TRUE, !.idx = @ + 1, !.worker = 0,
                                  !.errno = 0]
            /\ pc' = [pc EXCEPT !["main"] = "for"]
       ELSE /\ lists' = lists
            /\ mon' = mon
            /\ pc' = raised("main")
    /\ UNCHANGED <<config, override_queues, workers,
                   shutdown_pending, procs, fr, used>>

\* line 95: self.workers.remove(worker) on the drain path
wait_remove ==
    /\ Runnable("main") /\ pc["main"] = "remove"
    /\ IF In(self_workers, mon.worker)
       THEN /\ lists' = [lists EXCEPT ![workers] = list_remove(@, mon.worker)]
            /\ mon' = [mon EXCEPT !.idx = @ + 1, !.worker = 0]
            /\ pc' = [pc EXCEPT !["main"] = "for"]
       ELSE /\ lists' = lists
            /\ mon' = mon
            /\ pc' = raised("main")
    /\ UNCHANGED <<config, override_queues, workers,
                   shutdown_pending, procs, fr, used>>

\* lines 97-100: the tick is over; sleep(1) when any_alive, then line 85
wait_sleep ==
    /\ Runnable("main") /\ pc["main"] = "tick_end"
    /\ pc' = [pc EXCEPT !["main"] = "while"]
    /\ UNCHANGED <<config, override_queues, lists, workers,
                   shutdown_pending, procs, mon, fr, used>>

\* A variant of reload that stops the previous worker set before it starts the
\* new one: stop_workers(old_workers) begins at once.
reload_stop_first(c, op) ==
    IF config.path
    THEN \E w \in ReloadDicts :
            LET cfg    == [config EXCEPT !.WORKERS = w]
                queues == parse_queues_str(_get_queues(cfg))
                f      == stop_frame([NoFrame EXCEPT !.op = op,
                                                     !.old_workers = workers],
                                     workers, FALSE)
            IN  /\ config' = cfg
                /\ lists' = Append(lists, <<>>)
                /\ workers' = Len(lists) + 1
                /\ IF queues.err
                   THEN /\ pc' = raised(c)
                        /\ fr' = [fr EXCEPT ![c] = f]
                   ELSE /\ fr' = [fr EXCEPT ![c] = [f EXCEPT !.queues = queues.val]]
                        /\ pc' = [pc EXCEPT ![c] = "stop"]
    ELSE /\ UNCHANGED <<config, lists, workers>>
         /\ fr' = [fr EXCEPT ![c] =
                      stop_frame([NoFrame EXCEPT !.op = op, !.old_workers = workers],
                                 workers, FALSE)]
         /\ pc' = [pc EXCEPT ![c] = "stop"]

\* A variant of reload that binds self.workers to a new empty list whether or
\* not the configuration is reloadable.
reload_rebinding(c, op) ==
    IF config.path
    THEN \E w \in ReloadDicts :
            LET cfg    == [config EXCEPT !.WORKERS = w]
                queues == parse_queues_str(_get_queues(cfg))
                f      == stop_frame([NoFrame EXCEPT !.op = op,
                                                     !.old_workers = workers],
                                     workers, FALSE)
            IN  /\ config' = cfg
                /\ lists' = Append(lists, <<>>)
                /\ workers' = Len(lists) + 1
                /\ IF queues.err
                   THEN /\ pc' = raised(c)
                        /\ fr' = [fr EXCEPT ![c] = f]
                   ELSE /\ fr' = [fr EXCEPT ![c] = [f EXCEPT !.queues = queues.val]]
                        /\ pc' = [pc EXCEPT ![c] =
                                     IF queues.val = <<>> THEN "stop"
                                     ELSE "start_workers"]
    ELSE /\ config' = config
         /\ lists' = Append(lists, <<>>)
         /\ workers' = Len(lists) + 1
         /\ fr' = [fr EXCEPT ![c] =
                      stop_frame([NoFrame EXCEPT !.op = op, !.old_workers = workers],
                                 workers, FALSE)]
         /\ pc' = [pc EXCEPT ![c] = "stop"]

\* ----------------------------------------------------------------- reload
\* lines 150-153 and 49-51, called as op in the flow c: with a reloadable
\* configuration config.reload() re-reads it, self.workers is bound to a new
\* empty list and _start_workers resolves the queues; stop_workers(old_workers)
\* follows the start of the workers, or comes at once
reload(c, op) ==
    IF config.path
    THEN \E w \in ReloadDicts :
            LET cfg    == [config EXCEPT !.WORKERS = w]
                queues == parse_queues_str(_get_queues(cfg))
                f      == stop_frame([NoFrame EXCEPT !.op = op,
                                                     !.old_workers = workers],
                                     workers, FALSE)
            IN  /\ config' = cfg
                /\ lists' = Append(lists, <<>>)
                /\ workers' = Len(lists) + 1
                /\ IF queues.err
                   THEN /\ pc' = raised(c)
                        /\ fr' = [fr EXCEPT ![c] = f]
                   ELSE /\ fr' = [fr EXCEPT ![c] = [f EXCEPT !.queues = queues.val]]
                        /\ pc' = [pc EXCEPT ![c] =
                                     IF queues.val = <<>> THEN "stop"
                                     ELSE "start_workers"]
    ELSE /\ UNCHANGED <<config, lists, workers>>
         /\ fr' = [fr EXCEPT ![c] =
                      stop_frame([NoFrame EXCEPT !.op = op, !.old_workers = workers],
                                 workers, FALSE)]
         /\ pc' = [pc EXCEPT ![c] = "stop"]

\* -------------------------------------------------------- signal handlers
\* lines 120-124: once registered, a signal starts its handler between two
\* steps of the main flow
CanDeliver ==
    /\ MasterAlive /\ pc["main"] # "run"
    /\ pc["sig"] = "idle"
    /\ used < MaxEvents

\* A variant of shutdown that calls stop_workers without having set the flag.
shutdown_flag_unset(op, tty, kill) ==
    /\ shutdown_pending' = shutdown_pending
    /\ fr' = [fr EXCEPT !["sig"] =
                 stop_frame([NoFrame EXCEPT !.op = op, !.tty = tty], workers, kill)]
    /\ pc' = [pc EXCEPT !["sig"] = "stop"]

\* A variant of shutdown that flips the flag instead of setting it.
shutdown_toggling(op, tty, kill) ==
    /\ shutdown_pending' = ~shutdown_pending
    /\ fr' = [fr EXCEPT !["sig"] =
                 stop_frame([NoFrame EXCEPT !.op = op, !.tty = tty], workers, kill)]
    /\ pc' = [pc EXCEPT !["sig"] = "stop"]

\* lines 128-129 / 133-134 and 72-73, for the signal op: set the flag, then
\* stop_workers(kill=kill) binds its local to the list self.workers is bound to
shutdown(op, tty, kill) ==
    /\ shutdown_pending' = TRUE
    /\ fr' = [fr EXCEPT !["sig"] =
                 stop_frame([NoFrame EXCEPT !.op = op, !.tty = tty], workers, kill)]
    /\ pc' = [pc EXCEPT !["sig"] = "stop"]

_handle_sigterm ==
    /\ CanDeliver
    /\ shutdown("SIGTERM", FALSE, FALSE)
    /\ used' = used + 1
    /\ UNCHANGED <<config, override_queues, lists, workers, procs, mon>>

_handle_sigquit ==
    /\ CanDeliver
    /\ shutdown("SIGQUIT", FALSE, TRUE)
    /\ used' = used + 1
    /\ UNCHANGED <<config, override_queues, lists, workers, procs, mon>>

\* A variant of sigint_is_warm that does not read shutdown_pending.
sigint_is_warm_on_tty(tty) == tty

\* line 138: sys.stdin.isatty() and not self.shutdown_pending
sigint_is_warm(tty) == tty /\ ~shutdown_pending

\* lines 136-142; tty is what sys.stdin.isatty() answers
_handle_sigint ==
    /\ CanDeliver
    /\ \E tty \in BOOLEAN : shutdown("SIGINT", tty, ~sigint_is_warm(tty))
    /\ used' = used + 1
    /\ UNCHANGED <<config, override_queues, lists, workers, procs, mon>>

\* lines 144-146
_handle_sighup ==
    /\ CanDeliver
    /\ reload("sig", "SIGHUP")
    /\ used' = used + 1
    /\ UNCHANGED <<override_queues, shutdown_pending, procs, mon>>

\* ------------------------------------------------------------ _send_status
\* The daemon thread is at "loop" between two operations: connected or not.
\* Both loops end once shutdown_pending is read true (lines 158, 164), so a
\* thread at "loop" with shutdown_pending set takes no further step.

\* lines 159-162, 179-184: a connection is attempted and refused; sleep(1)
\* and try again
_send_status_connect ==
    /\ Runnable("mgr") /\ pc["mgr"] = "loop"
    /\ ~shutdown_pending
    /\ UNCHANGED vars

\* lines 164-172, 178: the status is sent and nothing is received (or a
\* socket.error closes the connection); sleep(1) and loop
_send_status_idle ==
    /\ Runnable("mgr") /\ pc["mgr"] = "loop"
    /\ ~shutdown_pending
    /\ UNCHANGED vars

\* The methods the manager's messages name.
Commands == {"reload", "stop_workers"}

\* lines 164-170, 173-176: the status is sent, a message is received and the
\* method it names is called
_send_status_dispatch(f) ==
    /\ Runnable("mgr") /\ pc["mgr"] = "loop"
    /\ ~shutdown_pending
    /\ used < MaxEvents
    /\ used' = used + 1
    /\ IF f = "reload"
       THEN reload("mgr", f)
       ELSE /\ fr' = [fr EXCEPT !["mgr"] =
                         stop_frame([NoFrame EXCEPT !.op = f], workers, FALSE)]
            /\ pc' = [pc EXCEPT !["mgr"] = "stop"]
            /\ UNCHANGED <<config, lists, workers>>
    /\ UNCHANGED <<override_queues, shutdown_pending, procs, mon>>

\* ------------------------------------------- _send_status, statement by statement
\* The positions of the daemon thread inside _send_status: "loop" is the test
\* of line 158, "connect" lines 159-162, "sleep" the handler of lines 179-182,
\* "inner" the test of line 164, "receive" lines 169-178, "ended" the return.

\* line 158: while not self.shutdown_pending
_send_status_while ==
    /\ Runnable("mgr") /\ pc["mgr"] = "loop"
    /\ pc' = [pc EXCEPT !["mgr"] = IF shutdown_pending THEN "ended" ELSE "connect"]
    /\ UNCHANGED <<config, override_queues, lists, workers,
                   shutdown_pending, procs, mon, fr, used>>

\* A variant of _send_status_refused in which the socket.error of connect is
\* not caught and ends the thread.
_send_status_refused_uncaught ==
    /\ Runnable("mgr") /\ pc["mgr"] = "connect"
    /\ pc' = raised("mgr")
    /\ UNCHANGED <<config, override_queues, lists, workers,
                   shutdown_pending, procs, mon, fr, used>>

\* lines 159-162, 179-181: sock.connect raises socket.error, which the except
\* clause of line 179 catches
_send_status_refused ==
    /\ Runnable("mgr") /\ pc["mgr"] = "connect"
    /\ pc' = [pc EXCEPT !["mgr"] = "sleep"]
    /\ UNCHANGED <<config, override_queues, lists, workers,
                   shutdown_pending, procs, mon, fr, used>>

\* lines 159-163: sock.connect succeeds
_send_status_connected ==
    /\ Runnable("mgr") /\ pc["mgr"] = "connect"
    /\ pc' = [pc EXCEPT !["mgr"] = "inner"]
    /\ UNCHANGED <<config, override_queues, lists, workers,
                   shutdown_pending, procs, mon, fr, used>>

\* lines 182-184: sleep(1), sock.close(), back to line 158
_send_status_sleep ==
    /\ Runnable("mgr") /\ pc["mgr"] = "sleep"
    /\ pc' = [pc EXCEPT !["mgr"] = "loop"]
    /\ UNCHANGED <<config, override_queues, lists, workers,
                   shutdown_pending, procs, mon, fr, used>>

\* lines 164-168: the inner test; with shutdown_pending the socket is closed
\* and line 158 follows; else the status is sent (sent says whether
\* send_message got through: its socket.error is caught at line 179)
_send_status_send ==
    /\ Runnable("mgr") /\ pc["mgr"] = "inner"
    /\ IF shutdown_pending
       THEN pc' = [pc EXCEPT !["mgr"] = "loop"]
       ELSE \E sent \in BOOLEAN :
               pc' = [pc EXCEPT !["mgr"] = IF sent THEN "receive" ELSE "sleep"]
    /\ UNCHANGED <<config, override_queues, lists, workers,
                   shutdown_pending, procs, mon, fr, used>>

\* The attributes of the Master object a message can name.
MasterAttributes == {"reload", "stop_workers"}

\* getattr(self, f) raises AttributeError unless has_attr(f)
has_attr(f) == f \in MasterAttributes

\* Command names the Master has no attribute for.
UnknownCommands == {"restart"}

\* lines 169-172, 178: receive_message raises socket.error (nothing to read),
\* which is passed over; sleep(1) and line 164
_send_status_nothing ==
    /\ Runnable("mgr") /\ pc["mgr"] = "receive"
    /\ pc' = [pc EXCEPT !["mgr"] = "inner"]
    /\ UNCHANGED <<config, override_queues, lists, workers,
                   shutdown_pending, procs, mon, fr, used>>

\* lines 169-176: a message naming f arrives and getattr(self, f) is
\* evaluated; its AttributeError is no socket.error and leaves the thread
_send_status_getattr(f) ==
    /\ Runnable("mgr") /\ pc["mgr"] = "receive"
    /\ ~has_attr(f)
    /\ pc' = raised("mgr")
    /\ UNCHANGED <<config, override_queues, lists, workers,
                   shutdown_pending, procs, mon, fr, used>>

\* ------------------------------------------------------------------- Next
Next ==
    \/ run
    \/ \E c \in Ctx : _start_workers(c)
    \/ \E c \in {"sig", "mgr"} : stop_workers(c)
    \/ wait_while
    \/ wait_is_alive
    \/ _spawn_new_worker
    \/ _spawn_new_worker_remove
    \/ wait_remove
    \/ wait_sleep
    \/ _handle_sigint
    \/ _handle_sigterm
    \/ _handle_sigquit
    \/ _handle_sighup
    \/ _send_status_connect
    \/ _send_status_idle
    \/ \E f \in Commands : _send_status_dispatch(f)
    \/ \E h \in DOMAIN procs : worker_exit(h)
    \/ \E h \in DOMAIN procs : worker_crash(h)

Spec == Init /\ [][Next]_vars

\* --------------------------------------------------------------- fairness
\* Every flow that can step does step, and a signalled worker exits.  run is
\* enabled exactly while the main flow is at "run" and is taken once, so its
\* weak fairness is that the main flow leaves "run".
MainStep ==
    \/ _start_workers("main")
    \/ wait_while
    \/ wait_is_alive
    \/ _spawn_new_worker
    \/ _spawn_new_worker_remove
    \/ wait_remove
    \/ wait_sleep

FairSpec ==
    /\ Spec
    /\ <>(pc["main"] # "run")
    /\ WF_vars(MainStep)
    /\ WF_vars(_start_workers("sig") \/ stop_workers("sig"))
    /\ WF_vars(_start_workers("mgr") \/ stop_workers("mgr"))
    /\ WF_vars(\E h \in DOMAIN procs : worker_exit(h))

\* ------------------------------------------------- the manager link alone
\* The main flow with its shutdown signals and crashes beside the daemon
\* thread taken statement by statement; no command the Master knows arrives.
LinkStep ==
    \/ _send_status_while
    \/ _send_status_refused
    \/ _send_status_connected
    \/ _send_status_sleep
    \/ _send_status_send
    \/ _send_status_nothing
    \/ \E f \in UnknownCommands : _send_status_getattr(f)

LinkNext ==
    \/ run
    \/ MainStep
    \/ _handle_sigterm
    \/ stop_workers("sig")
    \/ \E h \in DOMAIN procs : worker_exit(h)
    \/ \E h \in DOMAIN procs : worker_crash(h)
    \/ LinkStep

\* The daemon thread and the main flow keep running; a signalled worker exits.
LinkSpec ==
    /\ Init /\ [][LinkNext]_vars
    /\ <>(pc["main"] # "run")
    /\ WF_vars(MainStep)
    /\ WF_vars(stop_workers("sig"))
    /\ WF_vars(LinkStep)
    /\ WF_vars(\E h \in DOMAIN procs : worker_exit(h))

\* ------------------------------------------------------- the parser alone
\* Master.run on every WORKERS entry of at most MaxLen characters: run calls
\* _start_workers, which parses the entry (lines 49-51).
StrAlphabet == {"2", "*", "@", "a", ",", " "}

Strings == UNION {[1..n -> StrAlphabet] : n \in 0..MaxLen}

ParseDicts == {hostname :> s : s \in Strings}

ParseInit ==
    /\ config \in [WORKERS : ParseDicts, path : {FALSE}]
    /\ override_queues \in OverrideQueues
    /\ lists = << <<>> >>
    /\ workers = 1
    /\ shutdown_pending = FALSE
    /\ procs = <<>>
    /\ pc = [c \in Ctx |->
                IF c = "main" THEN "run" ELSE IF c = "sig" THEN "idle" ELSE "unstarted"]
    /\ mon = NoMon
    /\ fr = [c \in Ctx |-> NoFrame]
    /\ used = 0

ParseSpec == ParseInit /\ [][run]_vars

\* ----------------------------------------------------------------- claims
Range(l) == {l[i] : i \in 1..Len(l)}

\* the queue names the handles of the list l are bound to
QueueNames(l) == [i \in 1..Len(l) |-> procs[l[i]].queue_name]

\* the multiset of the elements of the sequence s
BagOf(s) == [x \in Range(s) |-> Cardinality({i \in 1..Len(s) : s[i] = x})]

\* the stop_workers loop of the flow c has signalled its whole list
StopComplete(c) == pc[c] = "stop" /\ fr[c].i > Len(lists[fr[c].list])

\* C1: crash recovery.  At the end of a monitor tick, while shutdown_pending
\* is false and self.workers is the list the Master started with (no reload
\* has replaced it), every worker the tick found dead is retired, one new
\* handle per dead one is in the worker set, and the set has the size and the
\* multiset of queue names it had when the tick began.
CrashRecovery ==
    (pc["main"] = "tick_end" /\ ~shutdown_pending /\ workers = 1) =>
        /\ Len(self_workers) = Len(mon.snapshot)
        /\ BagOf(QueueNames(self_workers)) = BagOf(QueueNames(mon.snapshot))
        /\ \A h \in Range(mon.snapshot) :
              In(self_workers, h) <=> h \notin mon.dead_seen
        /\ Cardinality(Range(self_workers) \ Range(mon.snapshot))
              = Cardinality(mon.dead_seen)

\* C1 witness: a tick has ended in which a crashed worker was replaced.
CrashRecoveryWitness ==
    /\ pc["main"] = "tick_end" /\ ~shutdown_pending /\ workers = 1
    /\ \E h \in mon.dead_seen : procs[h].signalled = "none"

\* C2 (as claimed): _spawn_new_worker never starts a worker while
\* shutdown_pending is true.
NoSpawnWhileShutdownPending ==
    [][(pc["main"] = "spawn" /\ pc'["main"] = "spawn_remove")
          => ~shutdown_pending]_vars

\* C3 (as claimed): once shutdown_pending is true the worker set never grows.
PoolNeverGrowsWhileShutdownPending ==
    [][shutdown_pending => Len(lists'[workers']) <= Len(lists[workers])]_vars

\* C4 (as claimed): once a shutdown signal has set shutdown_pending, and given
\* that signalled workers exit, the monitor loop ends with an empty worker
\* set (unless an exception has ended the Master).
ShutdownTerminates ==
    shutdown_pending ~>
        (pc["main"] = "crashed" \/ (pc["main"] = "done" /\ self_workers = <<>>))

\* C5 (as claimed): when the monitor loop has returned the worker set is empty
\* and no worker the Master started is alive.
ExitsOnlyWhenDrained ==
    pc["main"] = "done" =>
        /\ self_workers = <<>>
        /\ \A h \in DOMAIN procs : procs[h].st # "alive"

\* C6: shutdown_pending starts false and, once true, is never false again.
ShutdownPendingMonotone ==
    ~shutdown_pending /\ [][shutdown_pending => shutdown_pending']_vars

\* C6 witness: a SIGHUP reload runs after shutdown_pending was set.
ShutdownPendingWitness ==
    shutdown_pending /\ pc["sig"] = "start_workers" /\ fr["sig"].op = "SIGHUP"

\* C7: when the SIGINT handler starts, it sets shutdown_pending and signals
\* the workers with SIGTERM exactly when stdin is a terminal and
\* shutdown_pending was false, and with SIGKILL otherwise.
InterruptHandling ==
    [][(pc["sig"] = "idle" /\ pc'["sig"] # "idle" /\ fr'["sig"].op = "SIGINT")
          => /\ shutdown_pending'
             /\ ~fr'["sig"].kill <=> (fr'["sig"].tty /\ ~shutdown_pending)]_vars

\* C7 witness: on a terminal, the second interrupt sends SIGKILL to a worker.
DoubleInterruptWitness ==
    /\ pc["sig"] = "stop" /\ fr["sig"].op = "SIGINT"
    /\ fr["sig"].tty /\ fr["sig"].kill
    /\ fr["sig"].sent # <<>>

\* C8 (as claimed): when the handler of SIGTERM or SIGQUIT ends,
\* shutdown_pending is set and every handle that was in the worker set when
\* the handler began has been signalled by it, once, and no other handle:
\* with SIGTERM by _handle_sigterm, with SIGKILL by _handle_sigquit.
ShutdownSignalsEveryWorker ==
    [][(pc["sig"] = "stop" /\ fr["sig"].op \in {"SIGTERM", "SIGQUIT"}
            /\ pc'["sig"] = "idle")
          => /\ shutdown_pending
             /\ fr["sig"].sent = fr["sig"].targets
             /\ fr["sig"].kill <=> fr["sig"].op = "SIGQUIT"]_vars

\* C9 (as claimed): when reload() with a reloadable configuration is about to
\* return, and no other reload is running beside it, the worker set's queue
\* names are the freshly resolved queue list and every handle of the previous
\* set has been sent SIGTERM once.
ReloadRebuildsWorkerSet ==
    \A c \in {"sig", "mgr"} :
        (/\ StopComplete(c) /\ cause(fr[c].op) = "reload" /\ config.path
         /\ \A d \in {"sig", "mgr"} \ {c} : cause(fr[d].op) # "reload") =>
            /\ BagOf(QueueNames(self_workers))
                  = BagOf(parse_queues_str(_get_queues(config)).val)
            /\ fr[c].sent = fr[c].targets
            /\ ~fr[c].kill

\* C10 (as claimed): with a non-reloadable configuration no worker is spawned
\* in place of a worker that reload stopped.
NonReloadableReloadDrains ==
    [][(~config.path /\ pc["main"] = "spawn"
            /\ procs[mon.worker].signalled = "reload")
          => Len(procs') = Len(procs)]_vars

\* C10 (amended): reload with a non-reloadable configuration starts no worker
\* and leaves self.workers as it is, sending SIGTERM to its handles; the
\* monitor loop replaces the workers it stopped like crashed ones, so that at
\* the end of every tick, while shutdown_pending is false, the worker set
\* holds one handle per configured queue and none the tick found dead.
NonReloadableReloadRestarts ==
    /\ [](~config.path /\ pc["main"] = "tick_end" /\ ~shutdown_pending
            => /\ BagOf(QueueNames(self_workers))
                     = BagOf(parse_queues_str(_get_queues(config)).val)
               /\ \A h \in mon.dead_seen : ~In(self_workers, h))
    /\ [][\A c \in {"sig", "mgr"} :
            (~config.path /\ cause(fr'[c].op) = "reload" /\ fr[c].op = "none")
               => /\ procs' = procs /\ lists' = lists /\ workers' = workers
                  /\ fr'[c].list = workers /\ ~fr'[c].kill]_vars

\* C10 witness: a tick has ended in which a worker that reload stopped was
\* replaced.
NonReloadableReloadWitness ==
    /\ ~config.path /\ pc["main"] = "tick_end" /\ ~shutdown_pending
    /\ \E h \in mon.dead_seen : procs[h].signalled = "reload"
    /\ Len(self_workers) = Len(mon.snapshot)

\* C11: manager link resilience.  A refused connection leaves the thread
\* alive and the Master untouched and is followed by the wait; a connection
\* attempt starts only from the test of line 158 with shutdown_pending false,
\* so never once the flag is set; and after a failed attempt, unless
\* shutdown_pending is set or the Master process ends, another attempt begins.
ManagerLinkResilience ==
    /\ [][/\ (pc["mgr"] = "connect" /\ pc'["mgr"] # "inner")
               => /\ pc'["mgr"] \in {"connect", "sleep"}
                  /\ (pc'["mgr"] = "sleep" => pc'["main"] = pc["main"])
          /\ pc["mgr"] = "sleep" => pc'["mgr"] \in {"sleep", "loop"}
          /\ (pc'["mgr"] = "connect" /\ pc["mgr"] # "connect")
               => (pc["mgr"] = "loop" /\ ~shutdown_pending)]_vars
    /\ (pc["mgr"] = "sleep") ~>
          (pc["mgr"] = "connect" \/ shutdown_pending \/ ~MasterAlive)

\* C11 witness: a connection attempt has failed, shutdown_pending was set
\* meanwhile, and the thread has ended at the next test of line 158.
ManagerLinkWitness ==
    /\ pc["mgr"] = "ended" /\ shutdown_pending /\ MasterAlive

\* C12 (as claimed): a message naming a command the Master does not know
\* changes nothing of the Master (worker set, shutdown_pending,
\* configuration), runs nothing, and leaves the thread in its send/receive
\* loop.
UnknownCommandIsNotFatal ==
    [][\A f \in UnknownCommands :
          _send_status_getattr(f) =>
              /\ pc'["mgr"] \in {"receive", "inner"}
              /\ UNCHANGED <<config, lists, workers, shutdown_pending, procs>>]_vars

\* C13 (as claimed): stop_workers applied to a list that holds a handle whose
\* process has exited and been reaped completes without an error: whenever a
\* flow leaves stop_workers it has gone through the whole list and signalled
\* every handle of it, and neither the main flow nor the daemon thread has
\* been ended by it.
StopWorkersToleratesReaped ==
    [][\A c \in {"sig", "mgr"} :
          (pc[c] = "stop" /\ pc'[c] # "stop") =>
              /\ StopComplete(c)
              /\ pc'["main"] # "crashed"
              /\ pc'["mgr"] # "dead"]_vars

\* ---- the queue spec grammar: per comma-separated token [<N>*]<name>, where
\* <name> may begin with "@" and N is a positive integer
spec_str == config.WORKERS[hostname]

\* the positions of the commas of s, and its k-th comma-separated field
Commas(s) == {i \in 1..Len(s) : s[i] = ","}

CommaBefore(s, k) ==
    IF k = 1 THEN 0
    ELSE CHOOSE i \in Commas(s) : Cardinality({j \in Commas(s) : j < i}) = k - 2

Field(s, k) ==
    LET from == CommaBefore(s, k) + 1
        to   == IF k > Cardinality(Commas(s)) THEN Len(s)
                ELSE CommaBefore(s, k + 1) - 1
    IN  SubSeq(s, from, to)

\* the field without the blanks around it
Trimmed(t) ==
    LET ink == {i \in 1..Len(t) : t[i] # " "}
    IN  IF ink = {} THEN <<>>
        ELSE SubSeq(t, CHOOSE i \in ink : \A j \in ink : i <= j,
                       CHOOSE i \in ink : \A j \in ink : i >= j)

Token(s, k) == Trimmed(Field(s, k))

IsName(n) ==
    /\ n # <<>>
    /\ \A i \in 1..Len(n) : n[i] \notin {"*", ",", " "}
    /\ \A i \in 2..Len(n) : n[i] # "@"
    /\ n # <<"@">>

IsNumber(d) == d # <<>> /\ \A i \in 1..Len(d) : IsDigit(d[i])

\* the token t is <N>*<name> with the star at position k
Multiplied(t, k) ==
    /\ t[k] = "*"
    /\ IsNumber(SubSeq(t, 1, k - 1))
    /\ digits_val(SubSeq(t, 1, k - 1)) >= 1
    /\ IsName(SubSeq(t, k + 1, Len(t)))

WellFormedToken(t) == IsName(t) \/ \E k \in 1..Len(t) : Multiplied(t, k)

WellFormed(s) == \A k \in 1..(Cardinality(Commas(s)) + 1) : WellFormedToken(Token(s, k))

Scoped(n) ==
    IF n[1] = "@" THEN SubSeq(n, 2, Len(n)) \o <<"_">> \o hostname ELSE n

\* what a well-formed token stands for: N copies of its scoped name
Copies(t) ==
    IF IsName(t) THEN <<Scoped(t)>>
    ELSE LET k == CHOOSE j \in 1..Len(t) : Multiplied(t, j)
         IN  [j \in 1..digits_val(SubSeq(t, 1, k - 1)) |->
                 Scoped(SubSeq(t, k + 1, Len(t)))]

RECURSIVE ExpansionFrom(_, _)
ExpansionFrom(s, k) ==
    IF k > Cardinality(Commas(s)) + 1 THEN <<>>
    ELSE Copies(Token(s, k)) \o ExpansionFrom(s, k + 1)

\* C14: queue spec expansion.  For every well-formed spec of at most MaxLen
\* characters, parse_queues_str does not fail and returns, in the order of
\* the tokens, N copies of the name of each token N*name (one of a bare
\* name), each copy host-scoped when the name begins with "@".
QueueSpecExpansion ==
    (pc["main"] # "run" /\ WellFormed(spec_str)) =>
        /\ pc["main"] # "crashed"
        /\ fr["main"].queues = ExpansionFrom(spec_str, 1)

\* C14 witness: "2*@a" has been parsed to two copies of a_h.
QueueSpecExpansionWitness ==
    /\ pc["main"] = "start_workers"
    /\ spec_str = <<"2", "*", "@", "a">>
    /\ fr["main"].queues = << <<"a", "_", "h">>, <<"a", "_", "h">> >>

\* the multiplier segment of the token t: what precedes its first star
HasStar(t) == \E i \in 1..Len(t) : t[i] = "*"

MultiplierSegment(t) ==
    SubSeq(t, 1, (CHOOSE i \in 1..Len(t) :
                     t[i] = "*" /\ \A j \in 1..(i - 1) : t[j] # "*") - 1)

\* a multiplier segment that is no number: nothing but blanks, or a character
\* that is neither a digit nor a blank
BadMultiplier(t) ==
    /\ HasStar(t)
    /\ \/ Trimmed(MultiplierSegment(t)) = <<>>
       \/ \E i \in 1..Len(MultiplierSegment(t)) :
             ~IsDigit(MultiplierSegment(t)[i]) /\ MultiplierSegment(t)[i] # " "

Malformed(s) ==
    \/ s = <<>>
    \/ \E k \in 1..(Cardinality(Commas(s)) + 1) :
          Token(s, k) = <<>> \/ BadMultiplier(Token(s, k))

\* C15 (as claimed): parse_queues_str fails, and returns no queue list, for
\* the empty string, for a spec with a token that is empty after trimming and
\* for a token whose multiplier segment is not numeric.
MalformedSpecRejected ==
    (pc["main"] # "run" /\ Malformed(spec_str)) => pc["main"] = "crashed"

\* C16 (as claimed): whatever a reload or stop_workers run by the daemon
\* thread or by the SIGHUP handler does between the steps of a tick, the
\* monitor loop never fails at a self.workers.remove(worker): the handle it
\* removes is in the current worker set.
MonitorRemoveNeverFails ==
    [][(pc["main"] \in {"spawn_remove", "remove"} /\ pc["sig"] = "idle")
          => pc'["main"] # "crashed"]_vars

\* C17: the error policy of _kill_pg.  When the monitor loop replaces a dead
\* worker, a killpg that succeeds or fails with "no such process" is followed
\* in the same step by one new worker on the dead worker's queue, appended to
\* the worker set; any other failure ends the monitor loop and no worker is
\* started.
KillPgErrorPolicy ==
    [][(pc["main"] = "spawn" /\ pc'["main"] # "spawn" /\ pc["sig"] = "idle") =>
          IF mon'.errno \in {0, ESRCH}
          THEN /\ pc'["main"] = "spawn_remove"
               /\ Len(procs') = Len(procs) + 1
               /\ procs'[Len(procs')].queue_name = procs[mon.worker].queue_name
               /\ procs'[Len(procs')].st = "alive"
               /\ In(lists'[workers'], Len(procs'))
          ELSE /\ pc'["main"] = "crashed"
               /\ Len(procs') = Len(procs)
               /\ lists' = lists]_vars

\* C17 witness: killpg failed with ESRCH and the replacement was started.
KillPgSwallowedWitness ==
    pc["main"] = "spawn_remove" /\ mon.errno = ESRCH

\* C17 witness of the other case: killpg failed with another errno and the
\* monitor loop has ended with as many workers as before.
KillPgPropagatedWitness ==
    pc["main"] = "crashed" /\ mon.errno \notin {0, ESRCH}

\* C18: reload overlap ordering, with a reloadable configuration.  The step
\* of reload that binds self.workers to a new empty list signals and starts
\* no process and keeps the previous list for stop_workers; and whenever
\* reload sends a signal to a worker of the previous list, its _start_workers
\* has returned: no queue of the new worker set is left to start.
ReloadOverlapOrdering ==
    [][\A c \in {"sig", "mgr"} :
          /\ (config.path /\ fr[c].op = "none" /\ cause(fr'[c].op) = "reload")
               => /\ procs' = procs
                  /\ workers' # workers /\ lists'[workers'] = <<>>
                  /\ fr'[c].list = workers /\ lists'[workers] = lists[workers]
                  /\ fr'[c].sent = <<>>
          /\ (config.path /\ cause(fr[c].op) = "reload"
                /\ Len(fr'[c].sent) > Len(fr[c].sent))
               => /\ pc[c] = "stop"
                  /\ fr[c].queues = <<>>]_vars

\* C18 witness: reload has started the new worker set and has sent SIGTERM to
\* a worker of the previous one.
ReloadOverlapWitness ==
    \E c \in {"sig", "mgr"} :
        /\ config.path /\ cause(fr[c].op) = "reload" /\ pc[c] = "stop"
        /\ fr[c].sent # <<>>
        /\ workers # fr[c].list /\ self_workers # <<>>

\* C19: the shutdown handlers set shutdown_pending before they signal.  While
\* the handler of SIGTERM or SIGQUIT is in stop_workers, and in every state in
\* which a worker has been signalled by a shutdown handler, shutdown_pending
\* is true.
FlagSetBeforeSignal ==
    /\ fr["sig"].op \in {"SIGTERM", "SIGQUIT"} => shutdown_pending
    /\ \A h \in DOMAIN procs : procs[h].signalled = "shutdown" => shutdown_pending

\* C19 witness: the SIGQUIT handler has sent SIGKILL to a worker.
FlagSetBeforeSignalWitness ==
    /\ pc["sig"] = "stop" /\ fr["sig"].op = "SIGQUIT" /\ fr["sig"].kill
    /\ \E h \in Range(fr["sig"].sent) : procs[h].signalled = "shutdown"

\* C20 (as claimed): once a shutdown handler has completed (shutdown_pending
\* is set, no handler is running and none has failed), every live worker the
\* Master has started has been sent a signal.
NoOrphanAfterShutdown ==
    (shutdown_pending /\ pc["sig"] = "idle" /\ pc["main"] # "crashed") =>
        \A h \in DOMAIN procs :
            procs[h].st = "alive" => procs[h].signalled # "none"

====
